---- MODULE Spec2Model ----
(***************************************************************************)
(* Ant colony optimisation for the travelling salesman problem, as run by  *)
(* the view config of src/ants/views.py: one POST to config runs           *)
(* ant_colony_optimization over the cities of the session.                 *)
(*                                                                         *)
(* Floating point numbers are modelled as exact fractions <<num, den>>     *)
(* in lowest terms, with the two IEEE values the program can produce on a  *)
(* division by 0.0: <<1, 0>> is inf and <<0, 0>> is nan.  Rounding is not  *)
(* modelled.  Coordinates are whole degrees and every set of cities has    *)
(* whole Euclidean distances, so that np.sqrt is exact.  Only the speed    *)
(* mode "fast" is modelled (the other one is geopy's geodesic).            *)
(***************************************************************************)
EXTENDS Integers, Sequences, FiniteSets

\* ------------------------------------------------------------------ bounds
MaxAnts == 2
MaxIterations == 2
\* ants * iterations is at most MaxWork
MaxWork == 2

\* ------------------------------------------------------- float arithmetic
Abs(x) == IF x < 0 THEN -x ELSE x

RECURSIVE GCD(_, _)
GCD(a, b) == IF b = 0 THEN a ELSE GCD(b, a % b)

LCM(a, b) == (a \div GCD(a, b)) * b

Inf == <<1, 0>>
NaN == <<0, 0>>
Zero == <<0, 1>>
One == <<1, 1>>

IsNaN(a) == a = NaN
IsInf(a) == a = Inf
IsFinite(a) == a[2] # 0

\* the float num/den
Norm(num, den) ==
    IF den = 0 THEN (IF num = 0 THEN NaN ELSE Inf)
    ELSE LET g == GCD(Abs(num), den) IN <<num \div g, den \div g>>

\* a + b
FAdd(a, b) ==
    IF IsNaN(a) \/ IsNaN(b) THEN NaN
    ELSE IF IsInf(a) \/ IsInf(b) THEN Inf
    ELSE LET l == LCM(a[2], b[2])
         IN Norm(a[1] * (l \div a[2]) + b[1] * (l \div b[2]), l)

\* a * b
FMul(a, b) ==
    IF IsNaN(a) \/ IsNaN(b) THEN NaN
    ELSE IF IsInf(a) \/ IsInf(b)
         THEN (IF a = Zero \/ b = Zero THEN NaN ELSE Inf)
    ELSE Norm(a[1] * b[1], a[2] * b[2])

\* a / b of two finite floats, under numpy's rules: x / 0.0 is inf, 0.0 / 0.0 is nan
FDiv(a, b) ==
    IF b[1] = 0 THEN (IF a[1] = 0 THEN NaN ELSE Inf)
    ELSE Norm(a[1] * b[2], a[2] * b[1])

\* a < b; every comparison with nan is false
FLt(a, b) ==
    IF IsNaN(a) \/ IsNaN(b) THEN FALSE
    ELSE IF IsInf(a) THEN FALSE
    ELSE IF IsInf(b) THEN TRUE
    ELSE a[1] * b[2] < b[1] * a[2]

FLeq(a, b) == a = b \/ FLt(a, b)

\* int(a) of a finite float a >= 0
FInt(a) == a[1] \div a[2]

\* np.sqrt of a whole number that is a square
Sqrt(x) == CHOOSE r \in 0..x : r * r = x

\* ------------------------------------------------------------------ inputs
\* request.session["cities"]: lists of [id, x, y]
Cities0 == << >>
Cities1 == << <<"A", 0, 0>> >>
Cities2 == << <<"A", 0, 0>>, <<"B", 0, 1>> >>
Cities2Dup == << <<"A", 0, 0>>, <<"B", 0, 0>> >>
Cities3 == << <<"A", 0, 0>>, <<"B", 3, 0>>, <<"C", 0, 4>> >>
Cities3Dup == << <<"A", 0, 0>>, <<"B", 0, 0>>, <<"C", 0, 1>> >>
CitySets == {Cities0, Cities1, Cities2, Cities2Dup, Cities3, Cities3Dup}

\* the exponents: only whether an exponent is 0 or positive matters to the model
Alphas == {0, 1}
Betas == {0, 1}
Rates == {Zero, <<1, 2>>, One}
Qs == {Zero, One}

CONVERSION_FACTOR == <<11132, 100>>

VARIABLES
    request_method,     \* request.method
    locations,          \* the cities handed to ant_colony_optimization
    ants, iterations, alpha, beta, evaporation_rate, Q,
    pc,                 \* where the request is
    exception,          \* the exception raised, "None" when none
    session_result,     \* request.session["result"]
    logs,               \* request.session["logs"]
    session_best_path,          \* request.session["best_path"], << >> when not set
    session_best_path_length,   \* request.session["best_path_length"], << >> when not set
    session_cities,     \* request.session["cities"]
    pheromone, best_path, best_path_length,
    starting_point, iteration,
    paths, path_lengths,
    visited, current_point, path, path_length,
    deposited,          \* how many of the round's paths update_pheromone has deposited
    round_starts,       \* history: the start node of every completed round
    round_mins,         \* history: min(path_lengths) of every completed round
    built_rounds,       \* history: paths and path_lengths of every completed round
    evaporations,       \* history: evaporations in the current round
    pheromone_before,   \* history: the matrix when the round's generate_paths was called
    pheromone_left      \* history: the matrix as the last update_pheromone (or line 68) left it

inputs == <<request_method, locations, ants, iterations, alpha, beta, evaporation_rate, Q>>
session == <<session_result, logs, session_best_path, session_best_path_length, session_cities>>
best == <<best_path, best_path_length>>
loop == <<starting_point, iteration>>
round == <<paths, path_lengths>>
ant == <<visited, current_point, path, path_length>>
history == <<round_starts, round_mins, built_rounds, evaporations, pheromone_before, pheromone_left>>

vars == <<inputs, pc, exception, session, pheromone, best, loop, round, ant, deposited, history>>

n_locations == Len(locations)
Nodes == 0 .. n_locations - 1
points == [i \in Nodes |-> <<locations[i + 1][2], locations[i + 1][3]>>]
None == << >>

\* np.ones((n_locations, n_locations))
Ones == [i \in Nodes |-> [j \in Nodes |-> One]]

\* distance(point1, point2, "fast")
distance(point1, point2) ==
    FMul(<<Sqrt((point1[1] - point2[1]) * (point1[1] - point2[1])
                + (point1[2] - point2[2]) * (point1[2] - point2[2])), 1>>,
         CONVERSION_FACTOR)

\* ------------------------------------------------- calculate_probabilities
\* The sampling depends on the probabilities only through which of them are
\* 0, positive, inf or nan: a float is abstracted to that class.
Class(a) ==
    IF IsNaN(a) THEN "nan"
    ELSE IF IsInf(a) THEN "inf"
    ELSE IF a[1] = 0 THEN "zero"
    ELSE "pos"

\* x ** e for e >= 0: x ** 0 is 1.0 for every x, nan included
PowClass(c, e) == IF e = 0 THEN "pos" ELSE c

\* a / b, b the power of a distance (0 or positive)
DivClass(a, b) ==
    IF a = "nan" THEN "nan"
    ELSE IF b = "pos" THEN a
    ELSE IF a = "zero" THEN "nan"
    ELSE "inf"

\* np.sum
SumClass(S) ==
    IF "nan" \in S THEN "nan"
    ELSE IF "inf" \in S THEN "inf"
    ELSE IF "pos" \in S THEN "pos"
    ELSE "zero"

\* one entry of probabilities /= np.sum(probabilities)
Normalize(c, total) ==
    IF c = "nan" \/ total = "nan" THEN "nan"
    ELSE IF total = "inf" THEN (IF c = "inf" THEN "nan" ELSE "zero")
    ELSE IF total = "zero" THEN "nan"
    ELSE c

calculate_probabilities(pher, current, unvisited) ==
    LET score == [u \in unvisited |->
                    DivClass(PowClass(Class(pher[current][u]), alpha),
                             PowClass(Class(distance(points[current], points[u])), beta))]
        total == SumClass({score[u] : u \in unvisited})
    IN [u \in unvisited |-> Normalize(score[u], total)]

\* np.random.choice(unvisited, p=probabilities) raises ValueError on a nan
ChoiceRaises(probabilities) ==
    \E u \in DOMAIN probabilities : probabilities[u] = "nan"

\* the nodes np.random.choice can return
Choices(probabilities) ==
    {u \in DOMAIN probabilities : probabilities[u] = "pos"}

\* ------------------------------------------------------- update_pheromone
\* pheromone *= evaporation_rate
Evaporated(pher) ==
    [i \in Nodes |-> [j \in Nodes |-> FMul(pher[i][j], evaporation_rate)]]

\* pheromone[a, b] += amount
AddEdge(pher, a, b, amount) ==
    [pher EXCEPT ![a][b] = FAdd(@, amount)]

\* for i in range(n_locations - 1): pheromone[path[i], path[i + 1]] += Q / path_length
\* from (1-based) position i of p on
RECURSIVE DepositSteps(_, _, _, _)
DepositSteps(pher, p, amount, i) ==
    IF i > n_locations - 1 THEN pher
    ELSE DepositSteps(AddEdge(pher, p[i], p[i + 1], amount), p, amount, i + 1)

\* mutant: the deposit is subtracted
DepositPathMinus(pher, p, length) ==
    LET amount == FDiv(<<0 - Q[1], Q[2]>>, length)
    IN AddEdge(DepositSteps(pher, p, amount, 1), p[Len(p)], p[1], amount)

\* mutant: the closing edge path[-1] -> path[0] is not reinforced
DepositPathOpen(pher, p, length) ==
    DepositSteps(pher, p, FDiv(Q, length), 1)

\* lines 212-214 for one path
DepositPath(pher, p, length) ==
    LET amount == FDiv(Q, length)
    IN AddEdge(DepositSteps(pher, p, amount, 1), p[Len(p)], p[1], amount)

\* ------------------------------------------------ ant_colony_optimization
\* mutant: the run starts from node 0 only
StartRangeFirst == {0}

\* range(n_locations)
StartRange == 0 .. n_locations - 1

\* mutant: the start node is not marked as visited
InitVisitedNone(start) == [i \in Nodes |-> FALSE]

\* visited = [False] * n_locations; visited[current_point] = True
InitVisited(start) == [i \in Nodes |-> i = start]

\* min(path_lengths) of a non-empty list
RECURSIVE MinFrom(_, _, _)
MinFrom(lengths, i, m) ==
    IF i > Len(lengths) THEN m
    ELSE MinFrom(lengths, i + 1, IF FLt(lengths[i], m) THEN lengths[i] ELSE m)

Min(lengths) == MinFrom(lengths, 2, lengths[1])

\* mutant: the last position of x instead of the first
IndexLast(lengths, x) ==
    CHOOSE i \in 1 .. Len(lengths) :
        lengths[i] = x /\ \A j \in i + 1 .. Len(lengths) : lengths[j] # x

\* path_lengths.index(x), 1-based
Index(lengths, x) ==
    CHOOSE i \in 1 .. Len(lengths) :
        lengths[i] = x /\ \A j \in 1 .. i - 1 : lengths[j] # x

\* mutant: the best is replaced by every round that differs from it
ImprovesAlways(m, best_length) == m # best_length

\* mutant: <= instead of <
ImprovesOrTies(m, best_length) == FLeq(m, best_length)

\* min(path_lengths) < best_path_length
Improves(m, best_length) == FLt(m, best_length)

\* [locations[i][0] for i in best_path]
ResultPath(p) == [i \in 1 .. Len(p) |-> locations[p[i] + 1][1]]

\* [[result_path[i]] + list(locations[best_path[i]][1:]) ...]
ResultLocations(p) == [i \in 1 .. Len(p) |-> locations[p[i] + 1]]

\* ------------------------------------------------------------------- Init
Init ==
    /\ request_method \in {"GET", "POST"}
    /\ locations \in CitySets
    /\ ants \in 0 .. MaxAnts
    /\ iterations \in 0 .. MaxIterations
    /\ ants * iterations <= MaxWork
    /\ alpha \in Alphas
    /\ beta \in Betas
    /\ evaporation_rate \in Rates
    /\ Q \in Qs
    /\ pc = "config"
    /\ exception = "None"
    /\ session_result = FALSE
    /\ logs = << >>
    /\ session_best_path = None
    /\ session_best_path_length = None
    /\ session_cities = locations
    /\ pheromone = << >>
    /\ best_path = None
    /\ best_path_length = Inf
    /\ starting_point = 0
    /\ iteration = 0
    /\ paths = << >>
    /\ path_lengths = << >>
    /\ visited = << >>
    /\ current_point = 0
    /\ path = << >>
    /\ path_length = Zero
    /\ deposited = 0
    /\ round_starts = << >>
    /\ round_mins = << >>
    /\ built_rounds = << >>
    /\ evaporations = 0
    /\ pheromone_before = << >>
    /\ pheromone_left = << >>

\* an exception leaves ant_colony_optimization for config's except clause
Raise(name) ==
    /\ pc' = "except"
    /\ exception' = name

\* config, lines 332-349, and ant_colony_optimization, lines 65-70
Config ==
    /\ pc = "config"
    /\ session_result' = FALSE
    /\ logs' = << >>
    /\ IF locations # << >> /\ request_method = "POST"
       THEN /\ pc' = "loop"
            /\ pheromone' = Ones
            /\ pheromone_left' = Ones
       ELSE /\ pc' = "render"
            /\ UNCHANGED <<pheromone, pheromone_left>>
    /\ UNCHANGED <<inputs, exception, session_best_path, session_best_path_length,
                   session_cities, best, loop, round, ant, deposited,
                   round_starts, round_mins, built_rounds, evaporations, pheromone_before>>

\* mutant: the matrix is created anew for every start node
LoopHeadReset ==
    /\ pc = "loop"
    /\ IF starting_point \notin 0 .. n_locations - 1
       THEN /\ pc' = "result"
            /\ UNCHANGED <<loop, round, evaporations, pheromone_before, pheromone>>
       ELSE IF iteration >= iterations
       THEN /\ pc' = "loop"
            /\ starting_point' = starting_point + 1
            /\ iteration' = 0
            /\ pheromone' = Ones
            /\ UNCHANGED <<round, evaporations, pheromone_before>>
       ELSE /\ pc' = "ant"
            /\ paths' = << >>
            /\ path_lengths' = << >>
            /\ evaporations' = 0
            /\ pheromone_before' = pheromone
            /\ UNCHANGED <<loop, pheromone>>
    /\ UNCHANGED <<inputs, exception, session, best, ant, deposited,
                   round_starts, round_mins, built_rounds, pheromone_left>>

\* the two for statements, lines 72-74
LoopHead ==
    /\ pc = "loop"
    /\ IF starting_point \notin StartRange
       THEN /\ pc' = "result"
            /\ UNCHANGED <<loop, round, evaporations, pheromone_before>>
       ELSE IF iteration >= iterations
       THEN /\ pc' = "loop"
            /\ starting_point' = starting_point + 1
            /\ iteration' = 0
            /\ UNCHANGED <<round, evaporations, pheromone_before>>
       ELSE /\ pc' = "ant"
            /\ paths' = << >>
            /\ path_lengths' = << >>
            /\ evaporations' = 0
            /\ pheromone_before' = pheromone
            /\ UNCHANGED loop
    /\ UNCHANGED <<inputs, exception, session, pheromone, best, ant, deposited,
                   round_starts, round_mins, built_rounds, pheromone_left>>

\* generate_paths: for ant in range(ants), lines 137-142, and the return, line 159
NextAnt ==
    /\ pc = "ant"
    /\ IF Len(paths) < ants
       THEN /\ pc' = "walk"
            /\ visited' = InitVisited(starting_point)
            /\ current_point' = starting_point
            /\ path' = <<starting_point>>
            /\ path_length' = Zero
            /\ UNCHANGED deposited
       ELSE /\ pc' = "evaporate"
            /\ deposited' = 0
            /\ UNCHANGED ant
    /\ UNCHANGED <<inputs, exception, session, pheromone, best, loop, round, history>>

\* generate_paths: one turn of while False in visited, lines 144-154
WalkStep ==
    /\ pc = "walk"
    /\ \E i \in Nodes : ~visited[i]
    /\ LET unvisited == {i \in Nodes : ~visited[i]}
           probabilities == calculate_probabilities(pheromone, current_point, unvisited)
       IN IF ChoiceRaises(probabilities)
          THEN /\ Raise("ValueError")
               /\ UNCHANGED ant
          ELSE /\ \E next_point \in Choices(probabilities) :
                    /\ path' = Append(path, next_point)
                    /\ path_length' = FAdd(path_length,
                                           distance(points[current_point], points[next_point]))
                    /\ visited' = [visited EXCEPT ![next_point] = TRUE]
                    /\ current_point' = next_point
               /\ UNCHANGED <<pc, exception>>
    /\ UNCHANGED <<inputs, session, pheromone, best, loop, round, deposited, history>>

\* mutant: a path is deposited as soon as it is complete
AppendPathOnline ==
    /\ pc = "walk"
    /\ \A i \in Nodes : visited[i]
    /\ paths' = Append(paths, path)
    /\ path_lengths' = Append(path_lengths, path_length)
    /\ pheromone' = IF Len(path) = 1 THEN pheromone
                    ELSE AddEdge(pheromone, path[1], path[2], FDiv(Q, path_length))
    /\ pc' = "ant"
    /\ UNCHANGED <<inputs, exception, session, best, loop, ant, deposited, history>>

\* mutant: the return leg path[-1] -> path[0] is added to the length
AppendPathClosed ==
    /\ pc = "walk"
    /\ \A i \in Nodes : visited[i]
    /\ paths' = Append(paths, path)
    /\ path_lengths' = Append(path_lengths,
                              FAdd(path_length,
                                   distance(points[path[Len(path)]], points[path[1]])))
    /\ pc' = "ant"
    /\ UNCHANGED <<inputs, exception, session, pheromone, best, loop, ant, deposited, history>>

\* generate_paths: the while loop ends, lines 156-157
AppendPath ==
    /\ pc = "walk"
    /\ \A i \in Nodes : visited[i]
    /\ paths' = Append(paths, path)
    /\ path_lengths' = Append(path_lengths, path_length)
    /\ pc' = "ant"
    /\ UNCHANGED <<inputs, exception, session, pheromone, best, loop, ant, deposited, history>>

\* update_pheromone, line 209
Evaporate ==
    /\ pc = "evaporate"
    /\ pheromone' = Evaporated(pheromone)
    /\ evaporations' = evaporations + 1
    /\ pc' = "deposit"
    /\ UNCHANGED <<inputs, exception, session, best, loop, round, ant, deposited,
                   round_starts, round_mins, built_rounds, pheromone_before, pheromone_left>>

\* update_pheromone: one turn of for path, path_length in zip(...), lines 211-214,
\* and the return. A path of one node has the int 0 as its length, and
\* Q / 0 raises ZeroDivisionError (a float 0.0 gives inf or nan instead).
Deposit ==
    /\ pc = "deposit"
    /\ IF deposited < Len(paths)
       THEN IF Len(paths[deposited + 1]) = 1
            THEN /\ Raise("ZeroDivisionError")
                 /\ UNCHANGED <<pheromone, deposited, pheromone_left>>
            ELSE /\ pheromone' = DepositPath(pheromone, paths[deposited + 1],
                                             path_lengths[deposited + 1])
                 /\ deposited' = deposited + 1
                 /\ UNCHANGED <<pc, exception, pheromone_left>>
       ELSE /\ pc' = "log"
            /\ pheromone_left' = pheromone
            /\ UNCHANGED <<exception, pheromone, deposited>>
    /\ UNCHANGED <<inputs, session, best, loop, round, ant,
                   round_starts, round_mins, built_rounds, evaporations, pheromone_before>>

\* request.session["logs"].append(...), lines 88-90
AppendLog ==
    /\ pc = "log"
    /\ IF path_lengths = << >>
       THEN /\ Raise("ValueError")
            /\ UNCHANGED logs
       ELSE /\ logs' = Append(logs, [km |-> FInt(Min(path_lengths)),
                                     path |-> paths[Index(path_lengths, Min(path_lengths))]])
            /\ pc' = "best"
            /\ UNCHANGED exception
    /\ UNCHANGED <<inputs, session_result, session_best_path, session_best_path_length,
                   session_cities, pheromone, best, loop, round, ant, deposited, history>>

\* lines 96-98, and the end of the round
UpdateBest ==
    /\ pc = "best"
    /\ IF Improves(Min(path_lengths), best_path_length)
       THEN /\ best_path' = paths[Index(path_lengths, Min(path_lengths))]
            /\ best_path_length' = Min(path_lengths)
       ELSE UNCHANGED best
    /\ iteration' = iteration + 1
    /\ round_starts' = Append(round_starts, starting_point)
    /\ round_mins' = Append(round_mins, Min(path_lengths))
    /\ built_rounds' = Append(built_rounds, [paths |-> paths, path_lengths |-> path_lengths])
    /\ pc' = "loop"
    /\ UNCHANGED <<inputs, exception, session, pheromone, starting_point, round, ant,
                   deposited, evaporations, pheromone_before, pheromone_left>>

\* lines 100-109, and config, lines 350-364
Result ==
    /\ pc = "result"
    /\ IF best_path = None
       THEN /\ Raise("TypeError")
            /\ UNCHANGED session
       ELSE /\ session_best_path' = ResultPath(best_path)
            /\ session_best_path_length' = <<FInt(best_path_length)>>
            /\ session_result' = TRUE
            /\ session_cities' = ResultLocations(best_path)
            /\ pc' = "done"
            /\ UNCHANGED <<exception, logs>>
    /\ UNCHANGED <<inputs, pheromone, best, loop, round, ant, deposited, history>>

\* config: except: pass, lines 367-371
ExceptPass ==
    /\ pc = "except"
    /\ pc' = "render"
    /\ UNCHANGED <<inputs, exception, session, pheromone, best, loop, round, ant,
                   deposited, history>>

Next ==
    \/ Config
    \/ LoopHead
    \/ NextAnt
    \/ WalkStep
    \/ AppendPath
    \/ Evaporate
    \/ Deposit
    \/ AppendLog
    \/ UpdateBest
    \/ Result
    \/ ExceptPass

Spec == Init /\ [][Next]_vars

TypeOK ==
    /\ pc \in {"config", "loop", "ant", "walk", "evaporate", "deposit", "log", "best",
               "result", "except", "done", "render"}
    /\ exception \in {"None", "ValueError", "ZeroDivisionError", "TypeError"}

\* ----------------------------------------------------------------- claims
\* the run was started by a POST on a session that has cities
Started == pc \notin {"config"} /\ request_method = "POST" /\ locations # << >>

\* the request is over
Finished == pc \in {"done", "render"}

IsPermutation(p) ==
    /\ Len(p) = n_locations
    /\ {p[i] : i \in 1 .. Len(p)} = Nodes

\* within a round, starting_point is the start node generate_paths was called
\* with (paths keeps the last round's paths until the next round begins)
InRound == pc \in {"ant", "walk", "evaporate", "deposit", "log", "best"}

\* C1: for n >= 2, every path generate_paths has produced is a permutation of
\* 0..n-1 (length n, every node once) that begins at the round's start node.
C1_PathsArePermutations ==
    n_locations >= 2 =>
        \A k \in 1 .. Len(paths) :
            /\ IsPermutation(paths[k])
            /\ InRound => paths[k][1] = starting_point

\* a round from start node 1 has produced two different paths over three cities
C1_Witness ==
    /\ pc = "evaporate"
    /\ n_locations = 3
    /\ starting_point = 1
    /\ Len(paths) = 2
    /\ paths[1] # paths[2]

\* C2: best_path_length never increases: every step leaves it equal or smaller.
C2_BestNeverIncreases ==
    [][FLeq(best_path_length', best_path_length)]_vars

\* a later round has improved on the best length of the first round
C2_Witness ==
    /\ Len(round_mins) >= 2
    /\ FLt(best_path_length, round_mins[1])

\* every path length the run has deposited or is about to deposit is positive
PositiveLengths ==
    /\ \A k \in 1 .. Len(round_mins) : FLt(Zero, round_mins[k])
    /\ \A k \in 1 .. Len(path_lengths) : FLt(Zero, path_lengths[k])

NonNegative(a) == ~IsNaN(a) /\ a[1] >= 0

\* C3: with evaporation_rate in [0,1], Q >= 0 and positive path lengths, every
\* entry of the pheromone matrix is a number >= 0 after any sequence of
\* evaporations and deposits.
C3_PheromoneNonNegative ==
    (Started /\ PositiveLengths) =>
        \A i \in Nodes : \A j \in Nodes : NonNegative(pheromone[i][j])

\* two rounds have evaporated by a half and deposited: an entry is 1/4 plus deposits
C3_Witness ==
    /\ pc = "log"
    /\ Len(round_mins) >= 1
    /\ PositiveLengths
    /\ evaporation_rate = <<1, 2>>
    /\ Q = One
    /\ \E i \in Nodes : \E j \in Nodes :
            FLt(<<1, 4>>, pheromone[i][j]) /\ FLt(pheromone[i][j], <<1, 2>>)

ValidInput == n_locations >= 2 /\ ants >= 1 /\ iterations >= 1

\* 0,..,0, 1,..,1, ..., n-1,..,n-1 with `iterations` copies of each
ExpectedStarts ==
    [r \in 1 .. n_locations * iterations |-> (r - 1) \div iterations]

\* C4: a run with valid input ends after exactly n * iterations rounds, start
\* nodes 0..n-1 in order with `iterations` rounds each, and one log entry per
\* round.
C4_RunsAllRounds ==
    (Started /\ ValidInput /\ Finished) =>
        /\ pc = "done"
        /\ round_starts = ExpectedStarts
        /\ Len(logs) = n_locations * iterations

InvalidInput == n_locations < 2 \/ ants < 1 \/ iterations < 1

\* C5: a run with n < 2, ants < 1 or iterations < 1 ends in an invalid-input
\* error before any round is computed: no path is built, the matrix is not
\* updated, nothing is logged and no best path or length is stored.
C5_InvalidInputFailsFast ==
    (Started /\ InvalidInput) =>
        /\ path = << >>
        /\ paths = << >>
        /\ pheromone \in {<< >>, Ones}
        /\ logs = << >>
        /\ session_best_path = None
        /\ session_best_path_length = None
        /\ Finished => exception = "InvalidInput"

ScenarioC == ants = 1 /\ iterations = 1 /\ n_locations = 3

\* C6, as stated: a run with ants = 1, iterations = 1 and n = 3 executes exactly
\* one round and leaves exactly one entry in the progress log.
C6_OneRound ==
    (ScenarioC /\ pc = "done") =>
        /\ Len(round_starts) = 1
        /\ Len(logs) = 1

\* C6, amended: such a run executes one round per start node; when it returns
\* it has executed exactly three rounds, from the start nodes 0, 1, 2, and the
\* progress log holds exactly three entries (and never more than three).
C6_ThreeRounds ==
    ScenarioC =>
        /\ Len(logs) <= 3
        /\ pc = "done" =>
            /\ round_starts = <<0, 1, 2>>
            /\ Len(logs) = 3

C6_Witness == ScenarioC /\ pc = "done" /\ Len(logs) = 3

HasDuplicates ==
    \E i \in Nodes : \E j \in Nodes : i # j /\ points[i] = points[j]

\* C7: a run over cities of which two have the same coordinates does not end in
\* an error: every round completes, every path is a permutation, and the run
\* returns a best path with a finite best length.
C7_DuplicatesDoNotCrash ==
    (Started /\ ValidInput /\ HasDuplicates) =>
        /\ exception = "None"
        /\ \A k \in 1 .. Len(paths) : IsPermutation(paths[k])
        /\ Finished =>
            /\ pc = "done"
            /\ IsPermutation(best_path)
            /\ IsFinite(best_path_length)

\* C8: in every round the matrix is multiplied by evaporation_rate exactly once,
\* before any deposit of the round; it is created once, all ones, and a round
\* starts from the matrix the previous round left.
C8_EvaporateOncePerRound ==
    /\ pc \in {"ant", "walk", "evaporate"} => evaporations = 0
    /\ pc \in {"deposit", "log", "best"} => evaporations = 1
    /\ (pc = "deposit" /\ deposited = 0) => pheromone = Evaporated(pheromone_before)
    /\ pc \in {"loop", "ant", "walk", "evaporate", "result"} => pheromone = pheromone_left
    /\ (pc \in {"ant", "walk", "evaporate"} /\ round_starts = << >>) => pheromone = Ones

\* the second start node's round begins from a matrix that is no longer all ones
C8_Witness ==
    /\ pc = "deposit"
    /\ deposited = 0
    /\ starting_point = 1
    /\ pheromone_before # Ones
    /\ evaporation_rate = <<1, 2>>
    /\ pheromone # pheromone_before

\* p uses the directed edge i -> j, the closing edge included
UsesEdge(p, i, j) ==
    \/ \E k \in 1 .. Len(p) - 1 : p[k] = i /\ p[k + 1] = j
    \/ p[Len(p)] = i /\ p[1] = j

\* value plus Q / L for each of the paths k.. of the round that use i -> j
RECURSIVE PlusDeposits(_, _, _, _)
PlusDeposits(value, i, j, k) ==
    IF k > Len(paths) THEN value
    ELSE PlusDeposits(IF UsesEdge(paths[k], i, j)
                      THEN FAdd(value, FDiv(Q, path_lengths[k]))
                      ELSE value,
                      i, j, k + 1)

C10_NoWriteWhileBuilding ==
    /\ [][(pc \in {"ant", "walk"}) => pheromone' = pheromone]_vars
    /\ [](pc \in {"ant", "walk"} =>
            pheromone = pheromone_before /\ pheromone_before = pheromone_left)
    /\ [](pc \in {"evaporate", "deposit"} => Len(paths) = ants)
    /\ [](pc \in {"ant", "walk"} => deposited \in {0, ants})

\* the second ant of a later round is building its path
C10_Witness ==
    /\ pc = "walk"
    /\ Len(paths) = 1
    /\ Len(path) = 2
    /\ Len(round_starts) >= 1
    /\ pheromone # Ones

\* the sum of the distances of the steps p[i] -> p[i + 1] from position i on
RECURSIVE StepsLength(_, _)
StepsLength(p, i) ==
    IF i >= Len(p) THEN Zero
    ELSE FAdd(distance(points[p[i]], points[p[i + 1]]), StepsLength(p, i + 1))

ReturnLeg(p) == distance(points[p[Len(p)]], points[p[1]])

\* C11: the length generate_paths returns with a path is the sum of the
\* distances of its n-1 steps path[i] -> path[i+1]; the return leg
\* path[n-1] -> path[0] is not in it (the length differs from the closed tour's
\* whenever that leg is not 0), although every deposit of the path adds Q / L
\* to the closing entry (path[n-1], path[0]).
C11_OpenTourLength ==
    /\ [](\A k \in 1 .. Len(paths) :
            /\ path_lengths[k] = StepsLength(paths[k], 1)
            /\ ReturnLeg(paths[k]) # Zero =>
                 path_lengths[k] # FAdd(StepsLength(paths[k], 1), ReturnLeg(paths[k])))
    /\ [][(pc = "deposit" /\ deposited' = deposited + 1) =>
            LET p == paths[deposited + 1]
            IN pheromone'[p[Len(p)]][p[1]] =
                 FAdd(pheromone[p[Len(p)]][p[1]], FDiv(Q, StepsLength(p, 1)))
         ]_vars

\* a round over the 3-4-5 triangle has deposited a path whose return leg is not 0
C11_Witness ==
    /\ pc = "deposit"
    /\ deposited = 1
    /\ locations = Cities3
    /\ Q = One
    /\ ReturnLeg(paths[1]) # Zero
    /\ pheromone[paths[1][3]][paths[1][1]] # pheromone_before[paths[1][3]][paths[1][1]]

\* k is the first position of a smallest element of lengths
FirstSmallest(lengths, k) ==
    /\ k \in 1 .. Len(lengths)
    /\ \A j \in 1 .. Len(lengths) : FLeq(lengths[k], lengths[j])
    /\ \A j \in 1 .. k - 1 : lengths[j] # lengths[k]

\* C12: the log entry of a round holds the integer part of the round's smallest
\* path length and the first path of the round with that length; it is appended
\* after the round's evaporation and deposits are complete and before the
\* global best is compared and updated for the round.
C12_LogEntry ==
    /\ [][logs' # logs =>
            \/ pc = "config" /\ logs' = << >>
            \/ /\ pc = "log"
               /\ Len(logs') = Len(logs) + 1
               /\ \A r \in 1 .. Len(logs) : logs'[r] = logs[r]
               /\ \E k \in 1 .. Len(path_lengths) :
                    /\ FirstSmallest(path_lengths, k)
                    /\ logs'[Len(logs')].km = FInt(path_lengths[k])
                    /\ logs'[Len(logs')].path = paths[k]
               \* after the update of this round
               /\ evaporations = 1
               /\ deposited = Len(paths)
               /\ pheromone = pheromone_left
               /\ pheromone' = pheromone
               \* before the best of this round
               /\ best_path' = best_path
               /\ best_path_length' = best_path_length
               /\ Len(logs) = Len(round_starts)
         ]_vars
    /\ [][<<best_path, best_path_length>>' # <<best_path, best_path_length>> =>
            /\ pc = "best"
            /\ Len(logs) = Len(round_starts) + 1
         ]_vars
    /\ [](Len(logs) \in {Len(round_starts), Len(round_starts) + 1})

\* a round of two different paths of the same length has been logged
C12_Witness ==
    /\ pc = "best"
    /\ Len(paths) = 2
    /\ paths[1] # paths[2]
    /\ path_lengths[1] = path_lengths[2]
    /\ logs[Len(logs)].path = paths[1]
    /\ Len(logs) >= 2

\* the (round, position) pairs of the paths built in the completed rounds
Built ==
    {rk \in (1 .. Len(built_rounds)) \X (1 .. ants) :
        rk[2] <= Len(built_rounds[rk[1]].paths)}

BuiltLength(rk) == built_rounds[rk[1]].path_lengths[rk[2]]
BuiltPath(rk) == built_rounds[rk[1]].paths[rk[2]]

\* rk is the first path of the earliest round among the shortest paths built
EarliestShortest(rk) ==
    /\ rk \in Built
    /\ \A o \in Built : FLeq(BuiltLength(rk), BuiltLength(o))
    /\ \A o \in Built :
         BuiltLength(o) = BuiltLength(rk) =>
            \/ o[1] > rk[1]
            \/ o[1] = rk[1] /\ o[2] >= rk[2]

\* C13: after every round, best_path_length is the smallest length of all paths
\* built so far and best_path is a path built in the run that has that length:
\* the first path of the earliest round that reached it (a later round that
\* only ties the best does not replace best_path).
C13_BestIsEarliestShortest ==
    /\ built_rounds = << >> => best_path = None /\ best_path_length = Inf
    /\ built_rounds # << >> =>
         /\ \A o \in Built : FLeq(best_path_length, BuiltLength(o))
         /\ \E rk \in Built :
              /\ EarliestShortest(rk)
              /\ best_path_length = BuiltLength(rk)
              /\ best_path = BuiltPath(rk)

\* a later round has tied the best length with another path, and best_path is
\* still the earlier round's path
C13_Witness ==
    /\ pc = "loop"
    /\ \E rk \in Built : \E o \in Built :
         /\ EarliestShortest(rk)
         /\ o[1] > rk[1]
         /\ BuiltLength(o) = BuiltLength(rk)
         /\ BuiltPath(o) # BuiltPath(rk)
         /\ best_path = BuiltPath(rk)

====
